---- MODULE Spec2Model ----
(***************************************************************************)
(* Model of respyra's sensor channel (core/breath_belt.py: BreathBelt) and *)
(* of the default experiment runner (core/runner.py: run_experiment).      *)
(*                                                                         *)
(* Spec     : one BreathBelt instance driven by an arbitrary caller        *)
(*            (start / stop / get_all / get_latest in any order) while its *)
(*            reader threads run concurrently.                             *)
(* RunSpec  : run_experiment driving the same BreathBelt: belt connection, *)
(*            display setup, dialog, range calibration, the trial loop and *)
(*            the cleanup, with the reader thread running concurrently;    *)
(*            it also starts from _connect_belt of the legacy script       *)
(*            (scripts/breath_tracking_task.py), followed up to the        *)
(*            script's PsychoPy import.                                    *)
(* CalSpec  : the calibration computations (calibrate_from_baseline of     *)
(*            core/target_generator.py and the result computation of       *)
(*            run_range_calibration) applied to every bounded sample       *)
(*            sequence.  Forces and amplitudes are integers counting       *)
(*            tenths of a newton; sample values are whole newtons, so that *)
(*            the halving and the scaling by 0.8 and 0.2 are exact.        *)
(***************************************************************************)
EXTENDS Integers, Sequences, FiniteSets, TLC

\* ---------------------------------------------------------------- bounds
MaxSamples == 2   \* samples the device hands out in one behaviour
MaxStarts  == 2   \* successful start() calls in one behaviour
MaxLen     == 3   \* length of a sample sequence handed to a calibration
MaxForce   == 3   \* largest force reading, in newtons
MaxSegs    == 2   \* segments of a condition handed to a TargetGenerator
MaxCycles  == 2   \* n_cycles of a segment
MaxClock   == 2   \* latest clock reading of a frame

Threads == 1..MaxStarts      \* one Thread object per successful start()
NoThread == 0                \* self._thread is None
NoGdx == 0                   \* self._gdx is None

VARIABLES
  gdx,         \* BreathBelt._gdx: NoGdx or the id of the open device handle
  queue,       \* BreathBelt._queue
  stop_event,  \* BreathBelt._stop_event
  thread,      \* BreathBelt._thread
  started,     \* BreathBelt._started
  error,       \* BreathBelt._error: "None" or "Exception" (an exception is stored)
  tpc,         \* position of every reader thread in _reader_loop
  tval,        \* the measurement a reader thread holds between read and put
  nread,       \* number of measurements the device has handed out
  nstart,      \* number of successful start() calls
  cpc,         \* position of the calling thread inside a BreathBelt method
  local,       \* the calling thread's local list (samples / latest)
  last,        \* the last completed call: operation, outcome, return value
  produced,    \* history: every sample in the order it was enqueued
  delivered,   \* history: concatenation of all get_all() return values
  latestUsed,  \* history: get_latest() has dequeued something
  faultN,      \* history: Len(produced) when the current fault was recorded
  \* ---- run_experiment
  connection,  \* cfg.belt.connection
  conditions,  \* cfg.trial.conditions
  rpc,         \* position of run_experiment ("harness": not running)
  phase,       \* the session phase the runner is in
  trial,       \* trial_num of the current trial (0 before the trial loop)
  logger,      \* the DataLogger: "None", "open" or "closed"
  win,         \* the PsychoPy window: "None", "open" or "closed"
  stateObj,    \* state is not None
  error_occurred,
  forces,      \* range_cal_forces / baseline_forces of the running phase
  trial_errors,      \* trial_errors of the running trial (samples scored)
  all_trial_errors,  \* state.all_trial_errors (one entry per finished trial)
  rows,        \* the rows written with logger.log_row
  reported,    \* what the cleanup printed: <<"none">> or <<"trials", list>>
  escSeen,     \* history: the escape key has been observed
  calAccepted, \* history: run_range_calibration has returned True
  entered,     \* history: the <<trial, phase>> pairs entered so far
  resetN,      \* history: Len(produced) when s.clock.reset() last ran
  \* ---- calibration functions (CalSpec)
  force_samples,  \* the samples handed to a calibration
  min_amplitude,  \* the min_amplitude argument of calibrate_from_baseline
  args,        \* the further arguments of the function under study
  result       \* [fn, val]: the function applied ("none": not yet) and
               \* what it returned

beltVars == <<gdx, queue, stop_event, thread, started, error, tpc, tval,
              nread, nstart>>
callVars == <<cpc, local, last>>
histVars == <<produced, delivered, latestUsed, faultN>>
calVars == <<force_samples, min_amplitude, args, result>>
runCfg == <<connection, conditions, calVars>>
runRes == <<logger, win, stateObj, error_occurred>>
runData == <<forces, trial_errors, all_trial_errors, rows, reported>>
runHist == <<escSeen, calAccepted, entered, resetN>>
runVars == <<runCfg, rpc, phase, trial, runRes, runData, runHist>>
vars == <<beltVars, callVars, histVars, runVars>>

\* ------------------------------------------------------------ helpers
Ret(op, out, res) == [op |-> op, out |-> out, res |-> res]

\* threading.Thread.is_alive()
is_alive(t) == t # NoThread /\ tpc[t] \notin {"unborn", "done"}

\* a thread that is inside the while loop of _reader_loop
InLoop(t) == tpc[t] \in {"loop", "read", "got"}

\* variant: the recorded error is never looked at
_check_error_skipped == FALSE

\* _check_error: does the call raise BreathBeltError?
_check_error == error # "None"

\* variant: each dequeued sample is put in front of the list
get_all_step_prepend(samples, q) == <<Head(q)>> \o samples

\* samples.append(self._queue.get_nowait()) of get_all
get_all_step(samples, q) == Append(samples, Head(q))

\* variant: the first dequeued sample is kept
get_latest_step_keeps_first(latest, q) ==
  IF latest = <<>> THEN <<Head(q)>> ELSE latest

\* latest = self._queue.get_nowait() of get_latest
get_latest_step(latest, q) == <<Head(q)>>

\* ------------------------------------------------------------ Init
BeltInit ==
  /\ gdx = NoGdx
  /\ queue = <<>>
  /\ stop_event = FALSE
  /\ thread = NoThread
  /\ started = FALSE
  /\ error = "None"
  /\ tpc = [t \in Threads |-> "unborn"]
  /\ tval = [t \in Threads |-> 0]
  /\ nread = 0
  /\ nstart = 0
  /\ cpc = "idle"
  /\ local = <<>>
  /\ last = Ret("none", "none", <<>>)
  /\ produced = <<>>
  /\ delivered = <<>>
  /\ latestUsed = FALSE
  /\ faultN = 0

\* the runner's variables while no run_experiment is in progress
RunIdle ==
  /\ trial = 0
  /\ phase = "idle"
  /\ logger = "None"
  /\ win = "None"
  /\ stateObj = FALSE
  /\ error_occurred = FALSE
  /\ forces = <<>>
  /\ trial_errors = <<>>
  /\ all_trial_errors = <<>>
  /\ rows = <<>>
  /\ reported = <<"none">>
  /\ escSeen = FALSE
  /\ calAccepted = FALSE
  /\ entered = {}
  /\ resetN = 0

DefaultMinAmplitude == 5   \* min_amplitude: float = 0.5

\* no calibration function is under study
CalIdle ==
  /\ force_samples = <<>>
  /\ min_amplitude = DefaultMinAmplitude
  /\ args = [fn |-> "none"]
  /\ result = [fn |-> "none", val |-> <<>>]

Init ==
  /\ BeltInit
  /\ RunIdle
  /\ CalIdle
  /\ rpc = "harness"
  /\ connection = "ble"
  /\ conditions = <<>>

\* ------------------------------------------------------------ start()
\* variant: start() without the "if self._started: raise" guard
start_call_unguarded ==
  /\ cpc = "idle"
  /\ nstart < MaxStarts
  /\ cpc' = "start_init"
  /\ UNCHANGED last
  /\ UNCHANGED <<beltVars, local, histVars>>

\* start(): the started check; a second start raises
start_call ==
  /\ cpc = "idle"
  /\ IF started
       THEN /\ last' = Ret("start", "raised", <<>>)
            /\ UNCHANGED cpc
       ELSE /\ nstart < MaxStarts
            /\ cpc' = "start_init"
            /\ UNCHANGED last
  /\ UNCHANGED <<beltVars, local, histVars>>

\* _init_device succeeded: the device is open and streaming
StartInitOk ==
  /\ UNCHANGED runVars
  /\ cpc = "start_init"
  /\ gdx' = nstart + 1
  /\ cpc' = "start_launch"
  /\ UNCHANGED <<queue, stop_event, thread, started, error, tpc, tval,
                 nread, nstart, local, last, histVars>>

\* variant: _init_device raised and the handle is not cleaned up
StartInitFail_keeps_handle ==
  /\ UNCHANGED runVars
  /\ cpc = "start_init"
  /\ gdx' = nstart + 1
  /\ cpc' = "idle"
  /\ last' = Ret("start", "raised", <<>>)
  /\ UNCHANGED <<queue, stop_event, thread, started, error, tpc, tval,
                 nread, nstart, local, histVars>>

\* _init_device raised: _cleanup_gdx, then BreathBeltError
StartInitFail ==
  /\ UNCHANGED runVars
  /\ cpc = "start_init"
  /\ gdx' = NoGdx
  /\ cpc' = "idle"
  /\ last' = Ret("start", "raised", <<>>)
  /\ UNCHANGED <<queue, stop_event, thread, started, error, tpc, tval,
                 nread, nstart, local, histVars>>

\* clear the stop event and the error, create and start the reader thread
StartLaunch ==
  /\ UNCHANGED runVars
  /\ cpc = "start_launch"
  /\ stop_event' = FALSE
  /\ error' = "None"
  /\ faultN' = 0
  /\ thread' = nstart + 1
  /\ started' = TRUE
  /\ tpc' = [tpc EXCEPT ![nstart + 1] = "loop"]
  /\ nstart' = nstart + 1
  /\ cpc' = "idle"
  /\ last' = Ret("start", "ok", <<>>)
  /\ UNCHANGED <<gdx, queue, tval, nread, local, produced, delivered,
                 latestUsed>>

\* ------------------------------------------------------------ get_all()
get_all_call ==
  /\ cpc = "idle"
  /\ IF _check_error
       THEN /\ last' = Ret("get_all", "raised", <<>>)
            /\ UNCHANGED <<cpc, local>>
       ELSE /\ cpc' = "ga_drain"
            /\ local' = <<>>
            /\ UNCHANGED last
  /\ UNCHANGED <<beltVars, histVars>>

\* one successful get_nowait() of the drain loop
GetAllPop ==
  /\ UNCHANGED runVars
  /\ cpc = "ga_drain"
  /\ queue # <<>>
  /\ local' = get_all_step(local, queue)
  /\ queue' = Tail(queue)
  /\ UNCHANGED <<gdx, stop_event, thread, started, error, tpc, tval,
                 nread, nstart, cpc, last, histVars>>

\* queue.Empty ends the drain; the list is returned
GetAllReturn ==
  /\ UNCHANGED runVars
  /\ cpc = "ga_drain"
  /\ queue = <<>>
  /\ last' = Ret("get_all", "ok", local)
  /\ delivered' = delivered \o local
  /\ local' = <<>>
  /\ cpc' = "idle"
  /\ UNCHANGED <<beltVars, produced, latestUsed, faultN>>

\* ------------------------------------------------------------ get_latest()
get_latest_call ==
  /\ cpc = "idle"
  /\ IF _check_error
       THEN /\ last' = Ret("get_latest", "raised", <<>>)
            /\ UNCHANGED <<cpc, local>>
       ELSE /\ cpc' = "gl_drain"
            /\ local' = <<>>
            /\ UNCHANGED last
  /\ UNCHANGED <<beltVars, histVars>>

GetLatestPop ==
  /\ UNCHANGED runVars
  /\ cpc = "gl_drain"
  /\ queue # <<>>
  /\ local' = get_latest_step(local, queue)
  /\ queue' = Tail(queue)
  /\ latestUsed' = TRUE
  /\ UNCHANGED <<gdx, stop_event, thread, started, error, tpc, tval,
                 nread, nstart, cpc, last, produced, delivered, faultN>>

GetLatestReturn ==
  /\ UNCHANGED runVars
  /\ cpc = "gl_drain"
  /\ queue = <<>>
  /\ last' = Ret("get_latest", "ok", local)
  /\ local' = <<>>
  /\ cpc' = "idle"
  /\ UNCHANGED <<beltVars, histVars>>

\* ------------------------------------------------------------ stop()
\* variant: stop() without the "if not self._started: return" guard
stop_call_unguarded ==
  /\ cpc = "idle"
  /\ stop_event' = TRUE
  /\ cpc' = "stop_join"
  /\ UNCHANGED last
  /\ UNCHANGED <<gdx, queue, thread, started, error, tpc, tval, nread,
                 nstart, local, histVars>>

\* stop(): no-op when not started, else set the stop event
stop_call ==
  /\ cpc = "idle"
  /\ IF ~started
       THEN /\ last' = Ret("stop", "noop", <<>>)
            /\ UNCHANGED <<cpc, stop_event>>
       ELSE /\ stop_event' = TRUE
            /\ cpc' = "stop_join"
            /\ UNCHANGED last
  /\ UNCHANGED <<gdx, queue, thread, started, error, tpc, tval, nread,
                 nstart, local, histVars>>

\* the join is skipped or returns because the reader thread has exited
join_returns == ~is_alive(thread)

\* variant: join() without a timeout
join_without_timeout == FALSE

\* the join gives up after join_timeout while the reader is still alive
join_times_out == is_alive(thread)

\* _cleanup_gdx begins: with no handle it returns at once
StopJoin ==
  /\ UNCHANGED runVars
  /\ cpc = "stop_join"
  /\ join_returns \/ join_times_out
  /\ IF gdx = NoGdx
       THEN /\ started' = FALSE
            /\ cpc' = "idle"
            /\ last' = Ret("stop", "ok", <<>>)
       ELSE /\ cpc' = "in_gdx_stop"
            /\ UNCHANGED <<started, last>>
  /\ UNCHANGED <<gdx, queue, stop_event, thread, error, tpc, tval,
                 nread, nstart, local, histVars>>

\* self._gdx.stop() returns (or raises, which is swallowed)
StopGdxStop ==
  /\ UNCHANGED runVars
  /\ cpc = "in_gdx_stop"
  /\ cpc' = "in_gdx_close"
  /\ UNCHANGED <<beltVars, local, last, histVars>>

\* self._gdx.close() returns; the handle is cleared and the flag reset
StopGdxClose ==
  /\ UNCHANGED runVars
  /\ cpc = "in_gdx_close"
  /\ gdx' = NoGdx
  /\ started' = FALSE
  /\ cpc' = "idle"
  /\ last' = Ret("stop", "ok", <<>>)
  /\ UNCHANGED <<queue, stop_event, thread, error, tpc, tval, nread,
                 nstart, local, histVars>>

\* ------------------------------------------------------------ _reader_loop
\* while not self._stop_event.is_set(): enter self._gdx.read()
ReaderLoop(t) ==
  /\ UNCHANGED runVars
  /\ tpc[t] = "loop"
  /\ IF stop_event
       THEN /\ tpc' = [tpc EXCEPT ![t] = "done"]
            /\ UNCHANGED tval
       ELSE IF gdx = NoGdx
         THEN /\ tpc' = [tpc EXCEPT ![t] = "exc"]
              /\ UNCHANGED tval
         ELSE /\ tpc' = [tpc EXCEPT ![t] = "read"]
              /\ tval' = [tval EXCEPT ![t] = gdx]
  /\ UNCHANGED <<gdx, queue, stop_event, thread, started, error, nread,
                 nstart, callVars, histVars>>

\* read() returns a measurement from a handle that is still open
ReaderReadOk(t) ==
  /\ UNCHANGED runVars
  /\ tpc[t] = "read"
  /\ tval[t] = gdx
  /\ nread < MaxSamples
  /\ nread' = nread + 1
  /\ tval' = [tval EXCEPT ![t] = nread + 1]
  /\ tpc' = [tpc EXCEPT ![t] = "got"]
  /\ UNCHANGED <<gdx, queue, stop_event, thread, started, error,
                 nstart, callVars, histVars>>

\* read() returns None: BreathBeltError is raised inside the loop
ReaderReadNone(t) ==
  /\ UNCHANGED runVars
  /\ tpc[t] = "read"
  /\ tpc' = [tpc EXCEPT ![t] = "exc"]
  /\ tval' = [tval EXCEPT ![t] = 0]
  /\ UNCHANGED <<gdx, queue, stop_event, thread, started, error, nread,
                 nstart, callVars, histVars>>

\* read() itself raises
ReaderReadRaise(t) ==
  /\ UNCHANGED runVars
  /\ tpc[t] = "read"
  /\ tpc' = [tpc EXCEPT ![t] = "exc"]
  /\ tval' = [tval EXCEPT ![t] = 0]
  /\ UNCHANGED <<gdx, queue, stop_event, thread, started, error, nread,
                 nstart, callVars, histVars>>

\* self._queue.put((timestamp, force_value))
ReaderPut(t) ==
  /\ UNCHANGED runVars
  /\ tpc[t] = "got"
  /\ queue' = Append(queue, tval[t])
  /\ produced' = Append(produced, tval[t])
  /\ tpc' = [tpc EXCEPT ![t] = "loop"]
  /\ tval' = [tval EXCEPT ![t] = 0]
  /\ UNCHANGED <<gdx, stop_event, thread, started, error, nread,
                 nstart, callVars, delivered, latestUsed, faultN>>

\* variant: the handler swallows the exception and the loop goes on
ReaderExcCheck_continue(t) ==
  /\ UNCHANGED runVars
  /\ tpc[t] = "exc"
  /\ tpc' = [tpc EXCEPT ![t] = "loop"]
  /\ UNCHANGED <<gdx, queue, stop_event, thread, started, error, tval, nread,
                 nstart, callVars, histVars>>

\* except Exception: if not self._stop_event.is_set()
ReaderExcCheck(t) ==
  /\ UNCHANGED runVars
  /\ tpc[t] = "exc"
  /\ IF stop_event
       THEN /\ tpc' = [tpc EXCEPT ![t] = "done"]
       ELSE /\ tpc' = [tpc EXCEPT ![t] = "seterr"]
  /\ UNCHANGED <<gdx, queue, stop_event, thread, started, error, tval, nread,
                 nstart, callVars, histVars>>

\* with self._error_lock: self._error = exc
ReaderSetErr(t) ==
  /\ UNCHANGED runVars
  /\ tpc[t] = "seterr"
  /\ error' = "Exception"
  /\ faultN' = Len(produced)
  /\ tpc' = [tpc EXCEPT ![t] = "done"]
  /\ UNCHANGED <<gdx, queue, stop_event, thread, started, tval, nread,
                 nstart, callVars, produced, delivered, latestUsed>>

Reader ==
  \E t \in Threads :
    \/ ReaderLoop(t)
    \/ ReaderReadOk(t)
    \/ ReaderReadNone(t)
    \/ ReaderReadRaise(t)
    \/ ReaderPut(t)
    \/ ReaderExcCheck(t)
    \/ ReaderSetErr(t)

\* the arbitrary caller of Spec: any method, whenever no call is running
StartCall == start_call /\ UNCHANGED runVars
GetAllCall == get_all_call /\ UNCHANGED runVars
GetLatestCall == get_latest_call /\ UNCHANGED runVars
StopCall == stop_call /\ UNCHANGED runVars

Caller ==
  \/ StartCall
  \/ StartInitOk
  \/ StartInitFail
  \/ StartLaunch
  \/ GetAllCall
  \/ GetAllPop
  \/ GetAllReturn
  \/ GetLatestCall
  \/ GetLatestPop
  \/ GetLatestReturn
  \/ StopCall
  \/ StopJoin
  \/ StopGdxStop
  \/ StopGdxClose

Next == Caller \/ Reader

Spec == Init /\ [][Next]_vars

\* ================================================================ runner
\* run_experiment (core/runner.py) driving the BreathBelt above.

NReps == 1   \* cfg.trial.n_reps

CondA  == [name |-> "A", feedback_gain |-> 1, segments |-> <<1>>]
CondB  == [name |-> "B", feedback_gain |-> 2, segments |-> <<1>>]
CondA2 == [name |-> "A", feedback_gain |-> 2, segments |-> <<1>>]

\* the condition lists a configuration may hold
ConditionLists ==
  {<<>>, <<CondA>>, <<CondA, CondB>>, <<CondA, CondA>>, <<CondA, CondA2>>}

\* positions inside the try block at which a statement may raise
TryPcs == {"dialog", "mklogger", "instructions", "cal_prompt", "frame", "ga",
           "cal_confirm", "build", "trial_next", "trial_info", "feedback",
           "end_screen"}

Max(S) == CHOOSE x \in S : \A y \in S : y <= x

\* the condition_map loop: a name seen before, mapped to other parameters
duplicate_conflict(conds) ==
  \E j \in 1..Len(conds) :
    LET prev == {i \in 1..(j - 1) : conds[i].name = conds[j].name}
    IN  /\ prev # {}
        /\ \/ conds[j].feedback_gain # conds[Max(prev)].feedback_gain
           \/ conds[j].segments # conds[Max(prev)].segments

\* trials.nTotal of the sequential TrialHandler
total_trials == Len(conditions) * NReps

\* condition_map[trial["condition"]] of trial n
condition_def(n) == conditions[((n - 1) % Len(conditions)) + 1]

\* variant: the countdown is skipped
next_phase_skips_countdown(p) ==
  CASE p = "baseline" -> "tracking"
    [] p = "countdown" -> "tracking"
    [] p = "tracking" -> "feedback"

\* the phase the trial loop runs after timed phase p
next_phase(p) ==
  CASE p = "baseline" -> "countdown"
    [] p = "countdown" -> "tracking"
    [] p = "tracking" -> "feedback"

\* variant: the escape key of the feedback screen is ignored
after_escape_ignored_at_feedback(at) ==
  IF at = "feedback" THEN "trial_next" ELSE "finally"

\* where the runner continues once the escape key was seen at position `at`:
\* every return / break leads to the finally block
after_escape(at) == "finally"

\* log_row of one drained sample
log_row(s) ==
  [sample |-> s, phase |-> phase,
   condition |-> IF phase = "range_cal" THEN "" ELSE condition_def(trial).name,
   trial_num |-> IF phase = "range_cal" THEN 0 ELSE trial]

\* variant: the countdown loop drains without logging
logged_rows_skips_countdown(new_samples) ==
  IF phase = "countdown"
    THEN <<>>
    ELSE [i \in 1..Len(new_samples) |-> log_row(new_samples[i])]

\* "for _ts, force in new_samples: ... s.logger.log_row(...)" of a frame
logged_rows(new_samples) ==
  [i \in 1..Len(new_samples) |-> log_row(new_samples[i])]

Enter(n, p) == entered' = entered \cup {<<n, p>>}

\* s.clock.reset(): the number of samples produced before the phase clock
\* starts
clock_reset == Len(produced)

\* ---- connect_belt
RunConnect1 ==
  /\ rpc = "connect1"
  /\ start_call
  /\ rpc' = "connect1_wait"
  /\ UNCHANGED <<runCfg, phase, trial, runRes, runData, runHist>>

RunConnect1Done ==
  /\ rpc = "connect1_wait"
  /\ cpc = "idle"
  /\ rpc' = IF last.out = "ok" THEN "setup"
            ELSE IF connection = "ble" THEN "connect2" ELSE "no_belt"
  /\ UNCHANGED <<beltVars, callVars, histVars, runCfg, phase, trial, runRes,
                 runData, runHist>>

\* the USB fallback on a fresh BreathBelt
RunConnect2 ==
  /\ rpc = "connect2"
  /\ start_call
  /\ rpc' = "connect2_wait"
  /\ UNCHANGED <<runCfg, phase, trial, runRes, runData, runHist>>

RunConnect2Done ==
  /\ rpc = "connect2_wait"
  /\ cpc = "idle"
  /\ rpc' = IF last.out = "ok" THEN "setup" ELSE "no_belt"
  /\ UNCHANGED <<beltVars, callVars, histVars, runCfg, phase, trial, runRes,
                 runData, runHist>>

\* ---- _connect_belt of scripts/breath_tracking_task.py (the legacy script)
ScriptConnect1 ==
  /\ rpc = "s_connect1"
  /\ start_call
  /\ rpc' = "s_connect1_wait"
  /\ UNCHANGED <<runCfg, phase, trial, runRes, runData, runHist>>

\* except BreathBeltError: the fallback only "if CONNECTION == 'ble'";
\* otherwise the function falls through to "return belt"
ScriptConnect1Done ==
  /\ rpc = "s_connect1_wait"
  /\ cpc = "idle"
  /\ rpc' = IF last.out = "ok" THEN "s_session"
            ELSE IF connection = "ble" THEN "s_connect2" ELSE "s_session"
  /\ UNCHANGED <<beltVars, callVars, histVars, runCfg, phase, trial, runRes,
                 runData, runHist>>

ScriptConnect2 ==
  /\ rpc = "s_connect2"
  /\ start_call
  /\ rpc' = "s_connect2_wait"
  /\ UNCHANGED <<runCfg, phase, trial, runRes, runData, runHist>>

\* the USB attempt: on failure raise SystemExit(1)
ScriptConnect2Done ==
  /\ rpc = "s_connect2_wait"
  /\ cpc = "idle"
  /\ rpc' = IF last.out = "ok" THEN "s_session" ELSE "no_belt"
  /\ UNCHANGED <<beltVars, callVars, histVars, runCfg, phase, trial, runRes,
                 runData, runHist>>

\* run_experiment of the legacy script: "from psychopy import ..." right
\* after belt = _connect_belt(); the script is not followed any further
ScriptImport ==
  /\ rpc = "s_session"
  /\ rpc' = "s_dialog"
  /\ UNCHANGED <<beltVars, callVars, histVars, runCfg, phase, trial, runRes,
                 runData, runHist>>

\* ---- import psychopy; setup_display (before the try block)
RunSetupOk ==
  /\ rpc = "setup"
  /\ win' = "open"
  /\ rpc' = "dialog"
  /\ UNCHANGED <<beltVars, callVars, histVars, runCfg, phase, trial, logger,
                 stateObj, error_occurred, runData, runHist>>

\* the import or setup_display raises: nothing in run_experiment handles it
RunSetupRaise ==
  /\ rpc = "setup"
  /\ rpc' = "propagated"
  /\ UNCHANGED <<beltVars, callVars, histVars, runCfg, phase, trial, runRes,
                 runData, runHist>>

\* ---- try block
RunDialogOk ==
  /\ rpc = "dialog"
  /\ rpc' = "mklogger"
  /\ UNCHANGED <<beltVars, callVars, histVars, runCfg, phase, trial, runRes,
                 runData, runHist>>

\* the dialog was cancelled: belt.stop() ...
RunDialogCancel ==
  /\ rpc = "dialog"
  /\ stop_call
  /\ rpc' = "cancel_wait"
  /\ UNCHANGED <<runCfg, phase, trial, runRes, runData, runHist>>

\* ... win.close(); core.quit(), whose SystemExit runs the finally block
RunCancelQuit ==
  /\ rpc = "cancel_wait"
  /\ cpc = "idle"
  /\ win' = "closed"
  /\ rpc' = "finally"
  /\ UNCHANGED <<beltVars, callVars, histVars, runCfg, phase, trial, logger,
                 stateObj, error_occurred, runData, runHist>>

\* create_session_file, DataLogger, ExperimentState
RunMkLogger ==
  /\ rpc = "mklogger"
  /\ logger' = "open"
  /\ stateObj' = TRUE
  /\ rpc' = "instructions"
  /\ UNCHANGED <<beltVars, callVars, histVars, runCfg, phase, trial, win,
                 error_occurred, runData, runHist>>

\* a statement of the try block raises: except Exception, then finally
RunRaise ==
  /\ rpc \in TryPcs
  /\ cpc = "idle"
  /\ error_occurred' = TRUE
  /\ rpc' = "finally"
  /\ UNCHANGED <<beltVars, callVars, histVars, runCfg, phase, trial, logger,
                 win, stateObj, runData, runHist>>

\* the instruction screen
RunInstructions ==
  /\ rpc = "instructions"
  /\ \E key \in {"space", "escape"} :
       IF key = "escape"
         THEN /\ escSeen' = TRUE
              /\ rpc' = after_escape("instructions")
              /\ UNCHANGED <<phase, entered>>
         ELSE /\ rpc' = "cal_prompt"
              /\ phase' = "range_cal"
              /\ Enter(0, "range_cal")
              /\ UNCHANGED escSeen
  /\ UNCHANGED <<beltVars, callVars, histVars, runCfg, trial, runRes, runData,
                 calAccepted, resetN>>

\* run_range_calibration: the "Press SPACE when ready" screen
RunCalPrompt ==
  /\ rpc = "cal_prompt"
  /\ \E key \in {"space", "escape"} :
       IF key = "escape"
         THEN /\ escSeen' = TRUE
              /\ rpc' = after_escape("cal_prompt")
              /\ UNCHANGED <<forces, resetN>>
         ELSE /\ rpc' = "frame"
              /\ forces' = <<>>
              /\ resetN' = clock_reset
              /\ UNCHANGED escSeen
  /\ UNCHANGED <<beltVars, callVars, histVars, runCfg, phase, trial, runRes,
                 trial_errors, all_trial_errors, rows, reported, calAccepted,
                 entered>>

\* one iteration of a timed phase's frame loop begins: belt.get_all()
RunFrame ==
  /\ rpc = "frame"
  /\ get_all_call
  /\ rpc' = "ga"
  /\ UNCHANGED <<runCfg, phase, trial, runRes, runData, runHist>>

\* get_all() raised BreathBeltError
RunFrameRaised ==
  /\ rpc = "ga"
  /\ cpc = "idle"
  /\ last.out = "raised"
  /\ error_occurred' = TRUE
  /\ rpc' = "finally"
  /\ UNCHANGED <<beltVars, callVars, histVars, runCfg, phase, trial, logger,
                 win, stateObj, runData, runHist>>

\* the rest of the iteration: every drained sample is logged, then check_keys
RunFrameDone ==
  /\ rpc = "ga"
  /\ cpc = "idle"
  /\ last.out = "ok"
  /\ rows' = rows \o logged_rows(last.res)
  /\ forces' = IF phase \in {"range_cal", "baseline"}
                 THEN forces \o last.res ELSE forces
  /\ trial_errors' = IF phase = "tracking"
                       THEN trial_errors \o last.res ELSE trial_errors
  /\ \E escape \in BOOLEAN :
       IF escape
         THEN /\ escSeen' = TRUE
              /\ rpc' = after_escape("frame")
         ELSE /\ rpc' = "frame"
              /\ UNCHANGED escSeen
  /\ UNCHANGED <<beltVars, callVars, histVars, runCfg, phase, trial, runRes,
                 all_trial_errors, reported, calAccepted, entered, resetN>>

\* the clock has passed the phase's duration: the frame loop ends
RunPhaseElapsed ==
  /\ rpc = "frame"
  /\ IF phase = "range_cal"
       THEN /\ IF forces = <<>>
                 THEN /\ calAccepted' = TRUE
                      /\ rpc' = "build"
                 ELSE /\ rpc' = "cal_confirm"
                      /\ UNCHANGED calAccepted
            /\ UNCHANGED <<phase, trial_errors, all_trial_errors, entered,
                           resetN>>
       ELSE /\ phase' = next_phase(phase)
            /\ resetN' = IF next_phase(phase) = "feedback"
                           THEN resetN ELSE clock_reset
            /\ Enter(trial, next_phase(phase))
            /\ rpc' = IF next_phase(phase) = "feedback" THEN "feedback" ELSE "frame"
            /\ trial_errors' = IF phase = "countdown" THEN <<>> ELSE trial_errors
            /\ all_trial_errors' = IF next_phase(phase) = "feedback"
                                     THEN Append(all_trial_errors, trial_errors)
                                     ELSE all_trial_errors
            /\ UNCHANGED calAccepted
  /\ UNCHANGED <<beltVars, callVars, histVars, runCfg, trial, runRes, forces,
                 rows, reported, escSeen>>

\* the "Calibration Complete" screen: accept, recalibrate or escape
RunCalConfirm ==
  /\ rpc = "cal_confirm"
  /\ \E key \in {"space", "r", "escape"} :
       CASE key = "escape" -> /\ escSeen' = TRUE
                              /\ rpc' = after_escape("cal_confirm")
                              /\ UNCHANGED calAccepted
         [] key = "r" -> /\ rpc' = "cal_prompt"
                         /\ UNCHANGED <<escSeen, calAccepted>>
         [] key = "space" -> /\ calAccepted' = TRUE
                             /\ rpc' = "build"
                             /\ UNCHANGED escSeen
  /\ UNCHANGED <<beltVars, callVars, histVars, runCfg, phase, trial, runRes,
                 runData, entered, resetN>>

\* build the trial order and the condition map
RunBuild ==
  /\ rpc = "build"
  /\ IF conditions = <<>>
       THEN /\ rpc' = "finally"
            /\ UNCHANGED error_occurred
       ELSE IF duplicate_conflict(conditions)
         THEN /\ error_occurred' = TRUE
              /\ rpc' = "finally"
         ELSE /\ rpc' = "trial_next"
              /\ UNCHANGED error_occurred
  /\ UNCHANGED <<beltVars, callVars, histVars, runCfg, phase, trial, logger,
                 win, stateObj, runData, runHist>>

\* for trial in trials: the next trial, or the else branch (end screen)
RunTrialNext ==
  /\ rpc = "trial_next"
  /\ IF trial < total_trials
       THEN /\ trial' = trial + 1
            /\ rpc' = "trial_info"
            /\ UNCHANGED <<phase, entered>>
       ELSE /\ rpc' = "end_screen"
            /\ phase' = "end"
            /\ Enter(trial, "end")
            /\ UNCHANGED trial
  /\ UNCHANGED <<beltVars, callVars, histVars, runCfg, runRes, runData,
                 escSeen, calAccepted, resetN>>

\* the trial info screen, then the baseline begins
RunTrialInfo ==
  /\ rpc = "trial_info"
  /\ \E key \in {"space", "escape"} :
       IF key = "escape"
         THEN /\ escSeen' = TRUE
              /\ rpc' = after_escape("trial_info")
              /\ UNCHANGED <<phase, forces, entered, resetN>>
         ELSE /\ rpc' = "frame"
              /\ phase' = "baseline"
              /\ Enter(trial, "baseline")
              /\ forces' = <<>>
              /\ resetN' = clock_reset
              /\ UNCHANGED escSeen
  /\ UNCHANGED <<beltVars, callVars, histVars, runCfg, trial, runRes,
                 trial_errors, all_trial_errors, rows, reported, calAccepted>>

\* show_trial_feedback: the key that ends the feedback screen
RunFeedback ==
  /\ rpc = "feedback"
  /\ \E key \in {"space", "escape"} :
       IF key = "escape"
         THEN /\ escSeen' = TRUE
              /\ rpc' = after_escape("feedback")
         ELSE /\ rpc' = "trial_next"
              /\ UNCHANGED escSeen
  /\ UNCHANGED <<beltVars, callVars, histVars, runCfg, phase, trial, runRes,
                 runData, calAccepted, entered, resetN>>

\* show_end_screen: any listed key ends the session
RunEndScreen ==
  /\ rpc = "end_screen"
  /\ \E key \in {"space", "escape"} :
       /\ escSeen' = (escSeen \/ key = "escape")
       /\ rpc' = "finally"
  /\ UNCHANGED <<beltVars, callVars, histVars, runCfg, phase, trial, runRes,
                 runData, calAccepted, entered, resetN>>

\* ---- finally block
RunFinally ==
  /\ rpc = "finally"
  /\ stop_call
  /\ rpc' = "finally_wait"
  /\ UNCHANGED <<runCfg, phase, trial, runRes, runData, runHist>>

\* logger.close(), the summary prints, win.close(), core.quit()
RunFinallyRest ==
  /\ rpc = "finally_wait"
  /\ cpc = "idle"
  /\ logger' = IF logger = "None" THEN "None" ELSE "closed"
  /\ reported' = IF stateObj THEN <<"trials", all_trial_errors>> ELSE <<"none">>
  /\ win' = "closed"
  /\ rpc' = "exited"
  /\ UNCHANGED <<beltVars, callVars, histVars, runCfg, phase, trial, stateObj,
                 error_occurred, forces, trial_errors, all_trial_errors, rows,
                 runHist>>

Runner ==
  \/ ScriptConnect1
  \/ ScriptConnect1Done
  \/ ScriptConnect2
  \/ ScriptConnect2Done
  \/ ScriptImport
  \/ RunConnect1
  \/ RunConnect1Done
  \/ RunConnect2
  \/ RunConnect2Done
  \/ RunSetupOk
  \/ RunSetupRaise
  \/ RunDialogOk
  \/ RunDialogCancel
  \/ RunCancelQuit
  \/ RunMkLogger
  \/ RunRaise
  \/ RunInstructions
  \/ RunCalPrompt
  \/ RunFrame
  \/ RunFrameRaised
  \/ RunFrameDone
  \/ RunPhaseElapsed
  \/ RunCalConfirm
  \/ RunBuild
  \/ RunTrialNext
  \/ RunTrialInfo
  \/ RunFeedback
  \/ RunEndScreen
  \/ RunFinally
  \/ RunFinallyRest

\* the steps inside the BreathBelt methods the runner calls
BeltCall ==
  \/ StartInitOk
  \/ StartInitFail
  \/ StartLaunch
  \/ GetAllPop
  \/ GetAllReturn
  \/ StopJoin
  \/ StopGdxStop
  \/ StopGdxClose

RunInit ==
  /\ BeltInit
  /\ RunIdle
  /\ CalIdle
  /\ rpc \in {"connect1", "s_connect1"}
  /\ connection \in {"ble", "usb"}
  /\ conditions \in ConditionLists

RunNext == Runner \/ BeltCall \/ Reader

RunSpec == RunInit /\ [][RunNext]_vars

\* ================================================================ calibration
\* The calibration computations.  All forces are in tenths of a newton.

FallbackCenter == 50       \* return 5.0, 2.0: the center
FallbackAmplitude == 20    \* return 5.0, 2.0: the amplitude
RangeDefaultAmplitude == 20   \* s.global_amplitude = 2.0 (no data collected)
RangeDefaultCenter == 50      \* s.range_center = 5.0 (no data collected)
RangeMinAmplitude == 5     \* the 0.5 of max(raw_amplitude * rc.scale, 0.5)
ScalePercent == 80         \* rc.scale = 0.80
PercentileLo == 5          \* rc.percentile_lo
PercentileHi == 95         \* rc.percentile_hi
PaddingPercent == 20       \* padding = (global_max - global_min) * 0.2

\* the sample values a sequence may hold: whole newtons from -1 N to MaxForce
Forces == {10 * k : k \in -1..MaxForce}

SampleSeqs == UNION {[1..n -> Forces] : n \in 0..MaxLen}

\* the min_amplitude arguments: 0.0, 0.5 (the default), 1.0 and 2.5
MinAmplitudes == {0, DefaultMinAmplitude, 10, 25}

\* ExperimentState as constructed: range_center, global_amplitude, y_min, y_max
ExperimentState ==
  [range_center |-> 50, global_amplitude |-> 20, y_min |-> 0, y_max |-> 100]

\* Python's max(a, b) and min(a, b)
max_of(a, b) == IF b > a THEN b ELSE a

min_of(a, b) == IF b < a THEN b ELSE a

\* Python's min(seq) and max(seq) of a non-empty sequence
RECURSIVE min(_)
min(s) == IF Len(s) = 1 THEN s[1] ELSE min_of(s[1], min(Tail(s)))

RECURSIVE max(_)
max(s) == IF Len(s) = 1 THEN s[1] ELSE max_of(s[1], max(Tail(s)))

\* insertion of x into an ascending sequence
RECURSIVE insert(_, _)
insert(x, s) ==
  IF s = <<>> THEN <<x>>
  ELSE IF x <= Head(s) THEN <<x>> \o s
  ELSE <<Head(s)>> \o insert(x, Tail(s))

\* Python's sorted(seq)
RECURSIVE sorted(_)
sorted(s) == IF s = <<>> THEN <<>> ELSE insert(Head(s), sorted(Tail(s)))

\* variant: the amplitude is not clamped to min_amplitude
calibrate_from_baseline_unclamped(samples, min_amp) ==
  IF samples = <<>>
    THEN <<FallbackCenter, FallbackAmplitude>>
    ELSE LET lo == min(samples)
             hi == max(samples)
         IN  <<(hi + lo) \div 2, (hi - lo) \div 2>>

\* calibrate_from_baseline(force_samples, min_amplitude): <<center, amplitude>>
calibrate_from_baseline(samples, min_amp) ==
  IF samples = <<>>
    THEN <<FallbackCenter, FallbackAmplitude>>
    ELSE LET lo == min(samples)
             hi == max(samples)
             center == (hi + lo) \div 2
             amplitude == max_of((hi - lo) \div 2, min_amp)
         IN  <<center, amplitude>>

\* RangeCalConfig defaults: the percentiles the clipping uses
RangeCalConfig == [percentile_lo |-> PercentileLo, percentile_hi |-> PercentileHi]

\* run_range_calibration, "Percentile clipping": the two indices into the n
\* sorted samples (0-based, as in the source)
clip_indices_same_rule(n, percentile_lo, percentile_hi) ==
  LET lo_idx0 == (n * percentile_lo) \div 100
      hi_idx0 == (n * percentile_hi) \div 100
      lo_idx == max_of(0, min_of(lo_idx0, n - 1))
  IN  [lo_idx |-> lo_idx, hi_idx |-> max_of(0, min_of(hi_idx0, n - 1))]

clip_indices_hi_from_zero(n, percentile_lo, percentile_hi) ==
  LET lo_idx0 == (n * percentile_lo) \div 100
      hi_idx0 == ((n * percentile_hi) \div 100) - 1
  IN  [lo_idx |-> max_of(0, min_of(lo_idx0, n - 1)),
       hi_idx |-> max_of(0, min_of(hi_idx0, n - 1))]

clip_indices(n, percentile_lo, percentile_hi) ==
  LET lo_idx0 == (n * percentile_lo) \div 100
      hi_idx0 == ((n * percentile_hi) \div 100) - 1
      lo_idx == max_of(0, min_of(lo_idx0, n - 1))
      hi_idx == max_of(lo_idx, min_of(hi_idx0, n - 1))
  IN  [lo_idx |-> lo_idx, hi_idx |-> hi_idx]

\* run_range_calibration, "Compute results" with data: the local values the
\* computation goes through
range_calibration_locals(rc, range_cal_forces) ==
  LET sorted_forces == sorted(range_cal_forces)
      n == Len(sorted_forces)
      idx == clip_indices(n, rc.percentile_lo, rc.percentile_hi)
      global_min == sorted_forces[idx.lo_idx + 1]
      global_max == sorted_forces[idx.hi_idx + 1]
  IN  [sorted_forces |-> sorted_forces,
       n |-> n,
       lo_idx |-> idx.lo_idx,
       hi_idx |-> idx.hi_idx,
       global_min |-> global_min,
       global_max |-> global_max,
       raw_amplitude |-> (global_max - global_min) \div 2,
       padding |-> ((global_max - global_min) * PaddingPercent) \div 100]

\* run_range_calibration, "Compute results": the ExperimentState s after the
\* collection returned range_cal_forces
range_calibration_result(s, rc, range_cal_forces) ==
  IF range_cal_forces = <<>>
    THEN [s EXCEPT !.global_amplitude = RangeDefaultAmplitude,
                   !.range_center = RangeDefaultCenter]
    ELSE LET l == range_calibration_locals(rc, range_cal_forces)
         IN  [range_center |-> (l.global_max + l.global_min) \div 2,
              global_amplitude |->
                max_of((l.raw_amplitude * ScalePercent) \div 100, RangeMinAmplitude),
              y_min |-> l.global_min - l.padding,
              y_max |-> l.global_max + l.padding]

CalInit ==
  /\ BeltInit
  /\ RunIdle
  /\ rpc = "harness"
  /\ connection = "ble"
  /\ conditions = <<>>
  /\ force_samples \in SampleSeqs
  /\ min_amplitude \in MinAmplitudes
  /\ args = [fn |-> "none"]
  /\ result = [fn |-> "none", val |-> <<>>]

CalibrateFromBaseline ==
  /\ result.fn = "none"
  /\ result' = [fn |-> "calibrate_from_baseline",
                val |-> calibrate_from_baseline(force_samples, min_amplitude)]
  /\ UNCHANGED <<beltVars, callVars, histVars, connection, conditions, rpc,
                 phase, trial, runRes, runData, runHist, force_samples,
                 min_amplitude, args>>

RangeCalibration ==
  /\ result.fn = "none"
  /\ result' = [fn |-> "run_range_calibration",
                val |-> range_calibration_result(ExperimentState, RangeCalConfig, force_samples)]
  /\ UNCHANGED <<beltVars, callVars, histVars, connection, conditions, rpc,
                 phase, trial, runRes, runData, runHist, force_samples,
                 min_amplitude, args>>

CalNext == CalibrateFromBaseline \/ RangeCalibration

CalSpec == CalInit /\ [][CalNext]_vars

\* ================================================================ apply_gain
\* apply_gain(buffer, gain, center) of core/runner.py.  A gain is given in
\* percent (100 is gain 1.0); a list object is [obj, items], where obj tells
\* the caller's buffer object ("buffer") from a list created by the call
\* ("new").

GainPercents == {0, 50, 100, 200}

\* every variable of the belt and of the runner at rest
AtRest ==
  /\ BeltInit
  /\ RunIdle
  /\ rpc = "harness"
  /\ connection = "ble"
  /\ conditions = <<>>

restVars == <<beltVars, callVars, histVars, connection, conditions, rpc,
              phase, trial, runRes, runData, runHist>>

\* center + gain * (f - center)
perturbed(f, gain, center) == center + (gain * (f - center)) \div 100

\* variant: with gain 1.0 the buffer itself is returned
apply_gain_returns_buffer(buffer, gain, center) ==
  IF gain = 100
    THEN [obj |-> "buffer", items |-> buffer]
    ELSE [obj |-> "new",
          items |-> [i \in 1..Len(buffer) |-> perturbed(buffer[i], gain, center)]]

apply_gain(buffer, gain, center) ==
  IF gain = 100
    THEN [obj |-> "new", items |-> buffer]
    ELSE [obj |-> "new",
          items |-> [i \in 1..Len(buffer) |-> perturbed(buffer[i], gain, center)]]

\* the frames studied: s.buffer holds one earlier sample, the condition's
\* feedback_gain, the range-calibration center and the frame's target
TrackingArgs ==
  [fn : {"run_tracking"}, buffer : {<<20>>}, feedback_gain : GainPercents,
   range_center : Forces, target_force : Forces]

GainInit ==
  /\ AtRest
  /\ force_samples \in SampleSeqs
  /\ min_amplitude = DefaultMinAmplitude
  /\ args \in [fn : {"apply_gain"}, gain : GainPercents, center : Forces]
              \cup TrackingArgs
  /\ result = [fn |-> "none", val |-> <<>>]

\* result = apply_gain(buffer, gain, center); the buffer is only read
ApplyGain ==
  /\ args.fn = "apply_gain"
  /\ result.fn = "none"
  /\ result' = [fn |-> "apply_gain",
                val |-> apply_gain(force_samples, args.gain, args.center)]
  /\ UNCHANGED <<restVars, force_samples, min_amplitude, args>>

\* abs(x)
abs(x) == IF x < 0 THEN -x ELSE x

\* variant: the logged visual force is taken around the fallback center
tracking_row_other_center(force, target_force, feedback_gain, range_center) ==
  LET raw_error == target_force - force
      visual_force == FallbackCenter + (feedback_gain * (force - FallbackCenter)) \div 100
      compensated_error == target_force - visual_force
  IN  [force_n |-> force, target_force |-> target_force, error |-> raw_error,
       compensated_error |-> compensated_error, feedback_gain |-> feedback_gain]

\* run_tracking, the body of "for _ts, force in new_samples": the logged row.
\* round(x, 4) leaves a value that is a whole number of tenths as it is.
tracking_row(force, target_force, feedback_gain, range_center) ==
  LET raw_error == target_force - force
      visual_force == range_center + (feedback_gain * (force - range_center)) \div 100
      compensated_error == target_force - visual_force
  IN  [force_n |-> force, target_force |-> target_force, error |-> raw_error,
       compensated_error |-> compensated_error, feedback_gain |-> feedback_gain]

\* one frame of run_tracking whose get_all() returned new_samples: the rows
\* logged, the trial errors appended, the buffer after the appends and the
\* trace drawn with apply_gain(s.buffer, feedback_gain, s.range_center)
tracking_frame(buffer, new_samples, target_force, feedback_gain, range_center) ==
  LET logged == [i \in 1..Len(new_samples) |->
                   tracking_row(new_samples[i], target_force, feedback_gain,
                                range_center)]
  IN  [rows |-> logged,
       trial_errors |-> [i \in 1..Len(new_samples) |->
                           abs(logged[i].compensated_error)],
       buffer |-> buffer \o new_samples,
       drawn |-> apply_gain(buffer \o new_samples, feedback_gain,
                            range_center).items]

TrackingFrame ==
  /\ args.fn = "run_tracking"
  /\ result.fn = "none"
  /\ result' = [fn |-> "run_tracking",
                val |-> tracking_frame(args.buffer, force_samples,
                                       args.target_force, args.feedback_gain,
                                       args.range_center)]
  /\ UNCHANGED <<restVars, force_samples, min_amplitude, args>>

GainNext == ApplyGain \/ TrackingFrame

GainSpec == GainInit /\ [][GainNext]_vars

\* ================================================================ get_target
\* TargetGenerator.get_target of core/target_generator.py.  Time is counted in
\* quarter seconds.  A segment is [period, n_cycles]: period is 1 / freq_hz in
\* time units, so that its duration n_cycles / freq_hz is n_cycles * period.
\* The value returned is kept as the expression it is computed from:
\* <<"sin", center, amplitude, period, t_local>> stands for
\* center + amplitude * sin(2 pi freq_hz t_local), <<"center", center>> for
\* the fall-through "return self.center"; seg is the index of the segment the
\* walk stopped at (0: none).

Periods == {4, 8}

Segments == [period : Periods, n_cycles : 1..MaxCycles]

SegmentLists == UNION {[1..n -> Segments] : n \in 1..MaxSegs}

\* the largest total_duration of a condition
LongestPattern == MaxSegs * MaxCycles * 8

\* the times asked for: from before the start to beyond one repetition
Times == (-LongestPattern)..(2 * LongestPattern)

\* SegmentDef.duration
duration(seg) == seg.n_cycles * seg.period

\* ConditionDef.total_duration: sum(seg.duration for seg in self.segments)
RECURSIVE total_duration(_)
total_duration(segments) ==
  IF segments = <<>> THEN 0
  ELSE duration(Head(segments)) + total_duration(Tail(segments))

\* "for seg in self.condition.segments" from segment i on
RECURSIVE walk(_, _, _, _)
walk(gen, i, elapsed_in_segments, t_wrapped) ==
  IF i > Len(gen.segments)
    THEN [seg |-> 0, t_local |-> 0, value |-> <<"center", gen.center>>]
    ELSE LET seg == gen.segments[i]
             seg_end == elapsed_in_segments + duration(seg)
         IN  IF t_wrapped < seg_end
               THEN LET t_local == t_wrapped - elapsed_in_segments
                    IN  [seg |-> i, t_local |-> t_local,
                         value |-> <<"sin", gen.center, gen.amplitude,
                                     seg.period, t_local>>]
               ELSE walk(gen, i + 1, seg_end, t_wrapped)

\* variant: the time is not wrapped into the pattern
get_target_unwrapped(gen, t) == walk(gen, 1, 0, t)

\* get_target(t): wrap the time, then walk the segments
get_target(gen, t) == walk(gen, 1, 0, t % gen.total_duration)

\* TargetGenerator.__init__
TargetGenerator(segments, center, amplitude) ==
  [segments |-> segments, center |-> center, amplitude |-> amplitude,
   total_duration |-> total_duration(segments)]

TargetInit ==
  /\ AtRest
  /\ force_samples = <<>>
  /\ min_amplitude = DefaultMinAmplitude
  /\ args \in [fn : {"get_target"},
               gen : {TargetGenerator(sl, FallbackCenter, FallbackAmplitude) :
                        sl \in SegmentLists},
               t : Times]
  /\ result = [fn |-> "none", val |-> <<>>]

\* get_target(t) and get_target(t + total_duration) on the same generator;
\* the generator's attributes are only read
GetTarget ==
  /\ args.fn = "get_target"
  /\ result.fn = "none"
  /\ result' = [fn |-> "get_target",
                val |-> [at_t |-> get_target(args.gen, args.t),
                         one_later |->
                           get_target(args.gen, args.t + args.gen.total_duration)]]
  /\ UNCHANGED <<restVars, force_samples, min_amplitude, args>>

TargetNext == GetTarget

TargetSpec == TargetInit /\ [][TargetNext]_vars

\* ================================================================ frame body
\* The body of one frame of run_baseline (core/runner.py): the samples that
\* get_all() returned are (timestamp, force) pairs, the timestamp being the
\* reader thread's time.time() taken when the device read returned
\* (BreathBelt._reader_loop); `elapsed` is the phase clock read at the top of
\* the frame.  Both are readings of one time axis here.

Clock == 0..MaxClock

\* the pairs a reader may have enqueued
StampedSamples == Clock \X {10, 20}

\* run_baseline, "for _ts, force in new_samples": the rows logged and the
\* forces collected by one frame
baseline_frame(new_samples, elapsed, frame_count, condition_name, trial_num) ==
  [rows |-> [i \in 1..Len(new_samples) |->
               [timestamp |-> elapsed,
                frame |-> frame_count,
                force_n |-> new_samples[i][2],
                phase |-> "baseline",
                condition |-> condition_name,
                trial_num |-> trial_num,
                feedback_gain |-> 100]],
   baseline_forces |-> [i \in 1..Len(new_samples) |-> new_samples[i][2]]]

\* the frames studied: every sample was stamped no later than the frame's
\* clock reading
FrameInit ==
  /\ AtRest
  /\ min_amplitude = DefaultMinAmplitude
  /\ force_samples \in UNION {[1..n -> StampedSamples] : n \in 0..MaxLen}
  /\ args \in [fn : {"run_baseline"}, elapsed : Clock, frame_count : {1},
               condition : {"A"}, trial_num : {1}]
  /\ \A i \in 1..Len(force_samples) : force_samples[i][1] <= args.elapsed
  /\ result = [fn |-> "none", val |-> <<>>]

BaselineFrame ==
  /\ args.fn = "run_baseline"
  /\ result.fn = "none"
  /\ result' = [fn |-> "run_baseline",
                val |-> baseline_frame(force_samples, args.elapsed,
                                       args.frame_count, args.condition,
                                       args.trial_num)]
  /\ UNCHANGED <<restVars, force_samples, min_amplitude, args>>

FrameNext == BaselineFrame

FrameSpec == FrameInit /\ [][FrameNext]_vars

\* ================================================================ percentile clipping
\* The computation of run_range_calibration for every configured percentile
\* pair: args holds the RangeCalConfig percentiles, force_samples the forces
\* the frame loop collected (at least one).

Percentiles == 0..100

ClipValues == {-10, 0, 10 * MaxForce}

ClipSeqs == UNION {[1..n -> ClipValues] : n \in 1..MaxLen}

ClipInit ==
  /\ AtRest
  /\ force_samples \in ClipSeqs
  /\ min_amplitude = DefaultMinAmplitude
  /\ args \in [fn : {"run_range_calibration"},
               percentile_lo : Percentiles,
               percentile_hi : Percentiles]
  /\ result = [fn |-> "none", val |-> <<>>]

ClipCalibration ==
  /\ args.fn = "run_range_calibration"
  /\ result.fn = "none"
  /\ force_samples # <<>>
  /\ LET rc == [percentile_lo |-> args.percentile_lo,
                percentile_hi |-> args.percentile_hi]
     IN  result' = [fn |-> "run_range_calibration",
                    val |-> [state |-> range_calibration_result(
                                         ExperimentState, rc, force_samples),
                             locals |-> range_calibration_locals(
                                          rc, force_samples)]]
  /\ UNCHANGED <<restVars, force_samples, min_amplitude, args>>

ClipNext == ClipCalibration

ClipSpec == ClipInit /\ [][ClipNext]_vars

\* ================================================================ recalibration
\* The retry loop of run_range_calibration: result.val holds the position in
\* the loop (pc), the ExperimentState fields the function mutates (state),
\* whether the operator asked for a recalibration (repeated) and the value
\* returned; force_samples is range_cal_forces of the current attempt.

RecalInit ==
  /\ AtRest
  /\ force_samples = <<>>
  /\ min_amplitude = DefaultMinAmplitude
  /\ args = [fn |-> "run_range_calibration_loop"]
  /\ result = [fn |-> "run_range_calibration_loop",
               val |-> [pc |-> "prompt", state |-> ExperimentState,
                        repeated |-> FALSE, returned |-> "none"]]

AtLoopPc(pc) == args.fn = "run_range_calibration_loop" /\ result.val.pc = pc

\* the "Press SPACE when ready" screen
RecalPrompt ==
  /\ AtLoopPc("prompt")
  /\ \E key \in {"space", "escape"} :
       result' = IF key = "escape"
                   THEN [result EXCEPT !.val.pc = "done", !.val.returned = "False"]
                   ELSE [result EXCEPT !.val.pc = "collect"]
  /\ UNCHANGED <<restVars, force_samples, min_amplitude, args>>

\* the frame loop collects range_cal_forces, then "Compute results"
RecalCollect ==
  /\ AtLoopPc("collect")
  /\ \E range_cal_forces \in SampleSeqs, escaped \in BOOLEAN :
       /\ force_samples' = range_cal_forces
       /\ result' =
            IF escaped
              THEN [result EXCEPT !.val.pc = "done", !.val.returned = "False"]
              ELSE LET s == range_calibration_result(
                              result.val.state, RangeCalConfig, range_cal_forces)
                   IN  IF range_cal_forces = <<>>
                         THEN [result EXCEPT !.val.pc = "done",
                                             !.val.state = s,
                                             !.val.returned = "True"]
                         ELSE [result EXCEPT !.val.pc = "confirm",
                                             !.val.state = s]
  /\ UNCHANGED <<restVars, min_amplitude, args>>

\* the "Calibration Complete" screen: accept, recalibrate or escape
RecalConfirm ==
  /\ AtLoopPc("confirm")
  /\ \E key \in {"space", "r", "escape"} :
       result' =
         CASE key = "escape" ->
                [result EXCEPT !.val.pc = "done", !.val.returned = "False"]
           [] key = "r" ->
                [result EXCEPT !.val.pc = "prompt", !.val.repeated = TRUE]
           [] key = "space" ->
                [result EXCEPT !.val.pc = "done", !.val.returned = "True"]
  /\ UNCHANGED <<restVars, force_samples, min_amplitude, args>>

RecalNext == RecalPrompt \/ RecalCollect \/ RecalConfirm

RecalSpec == RecalInit /\ [][RecalNext]_vars

\* ================================================================ claims
IsPrefix(s, t) == Len(s) <= Len(t) /\ \A i \in 1..Len(s) : s[i] = t[i]

Occurrences(x, s) == Cardinality({i \in 1..Len(s) : s[i] = x})

\* the list an unfinished get_all() has collected so far
Collected == IF cpc = "ga_drain" THEN local ELSE <<>>

\* C1: while get_all() is the only call that dequeues, the concatenation of
\* all get_all() results is a prefix of the sequence of enqueued samples, and
\* results, the samples being collected and the queue together are exactly
\* that sequence: nothing is dropped, duplicated or reordered, and a
\* get_all() with nothing pending returns the empty list.
C1_FifoPrefix ==
  ~latestUsed =>
    /\ IsPrefix(delivered, produced)
    /\ delivered \o Collected \o queue = produced

\* C1 witness: one get_all() returned both samples, in the order enqueued
C1_Witness ==
  /\ ~latestUsed
  /\ cpc = "idle"
  /\ last = Ret("get_all", "ok", <<1, 2>>)
  /\ produced = <<1, 2>>

\* C2: with a fault recorded, the fault stays recorded until start() launches
\* a new reader, and every get_all() / get_latest() call made meanwhile
\* raises: none enters its drain loop or returns normally.
C2_StickyFault ==
  [][error # "None" =>
       /\ (error' # "None" \/ nstart' = nstart + 1)
       /\ ~(cpc = "idle" /\ cpc' \in {"ga_drain", "gl_drain"})
       /\ (cpc = "idle" /\ last' # last /\ last'.op \in {"get_all", "get_latest"}
             => last'.out = "raised")]_vars

\* C2 witness: a get_latest() call has raised although a sample is queued
C2_Witness ==
  /\ error # "None"
  /\ queue # <<>>
  /\ cpc = "idle"
  /\ last = Ret("get_latest", "raised", <<>>)

\* C3: once a get_all() call made after the fault has completed, every sample
\* enqueued before the fault has been returned by exactly one get_all().
C3_RetrievableOnce ==
  (~latestUsed /\ error # "None" /\ cpc = "idle"
     /\ last = Ret("get_all", "raised", <<>>))
    => \A i \in 1..faultN : Occurrences(produced[i], delivered) = 1

\* C7: at most one reader thread is inside the read loop at any time
C7_OneReader == Cardinality({t \in Threads : InLoop(t)}) <= 1

\* C8: no reader thread is inside read() while stop() is inside the device's
\* stop()/close(), and no two reader threads are inside read() together.
C8_ExclusiveDevice ==
  /\ ~(cpc \in {"in_gdx_stop", "in_gdx_close"} /\ \E t \in Threads : tpc[t] = "read")
  /\ Cardinality({t \in Threads : tpc[t] = "read"}) <= 1

\* C9: every step of a running stop() can be taken whatever the reader thread
\* is doing (the join is the only wait, and it is bounded), and when stop()
\* has returned the device handle is cleared and the channel is not started.
C9_StopCompletes ==
  /\ (cpc = "stop_join" => ENABLED StopJoin)
  /\ (cpc = "in_gdx_stop" => ENABLED StopGdxStop)
  /\ (cpc = "in_gdx_close" => ENABLED StopGdxClose)
  /\ (cpc = "idle" /\ last.op = "stop" => gdx = NoGdx /\ ~started)

\* C9 witness: stop() has returned while its reader thread is still inside
\* read(), i.e. after a join that timed out
C9_Witness ==
  /\ cpc = "idle"
  /\ last = Ret("stop", "ok", <<>>)
  /\ thread # NoThread
  /\ tpc[thread] = "read"

\* C10: a get_all() made after stop() has returned (and before any further
\* start()) returns no samples.
C10_EmptyAfterStop ==
  (cpc = "idle" /\ last.op = "get_all" /\ last.out = "ok" /\ ~started /\ nstart >= 1)
    => last.res = <<>>

\* ---------------------------------------------------------------- runner
TrialPhases == {"baseline", "countdown", "tracking", "feedback"}

CleanupPcs == {"finally", "finally_wait", "exited"}

\* C4: whenever run_experiment has ended after a successful belt connection,
\* belt.stop() has run (the channel is stopped, the device released) and the
\* data logger is not left open.
C4_CleanupOnEveryExit ==
  (rpc \in {"exited", "propagated"} /\ nstart >= 1)
    => (~started /\ gdx = NoGdx /\ logger # "open")

\* C5: phases are entered only in the order range_cal, then per trial
\* baseline -> countdown -> tracking -> feedback: a trial phase is entered
\* only after range calibration was accepted, each from its predecessor of
\* the same trial, no <<trial, phase>> is entered twice, and a trial that
\* reached tracking has been through its baseline and countdown.
C5_PhaseOrder ==
  [][/\ trial' \in {trial, trial + 1}
     /\ (trial' # trial => phase' = phase)
     /\ (phase' \in TrialPhases => calAccepted')
     /\ \A n \in 0..trial' :
          <<n, "tracking">> \in entered'
            => {<<n, "baseline">>, <<n, "countdown">>} \subseteq entered'
     /\ (phase' # phase =>
           /\ <<trial', phase'>> \notin entered
           /\ CASE phase' = "range_cal" -> phase = "idle"
                [] phase' = "baseline" -> phase \in {"range_cal", "feedback"}
                [] phase' = "countdown" -> phase = "baseline"
                [] phase' = "tracking" -> phase = "countdown"
                [] phase' = "feedback" -> phase = "tracking"
                [] phase' = "end" -> phase = "feedback"
                [] OTHER -> FALSE)]_vars

\* C5 witness: the second trial has reached its feedback screen
C5_Witness ==
  /\ phase = "feedback"
  /\ trial = 2
  /\ rpc = "feedback"
  /\ Len(all_trial_errors) = 2

\* C6: from the step that observes the escape key on, the runner is in the
\* cleanup only: no phase and no trial is entered, no trial result is added,
\* and when the session has exited the per-trial errors accumulated so far
\* have been reported.
C6_EscapeEndsSession ==
  [][escSeen' =>
       /\ rpc' \in CleanupPcs
       /\ phase' = phase
       /\ trial' = trial
       /\ all_trial_errors' = all_trial_errors
       /\ (rpc' = "exited" => reported' = <<"trials", all_trial_errors'>>)]_vars

\* C6 witness: escape during the tracking of the second trial; the session
\* has exited and the first trial's result was reported
C6_Witness ==
  /\ escSeen
  /\ rpc = "exited"
  /\ phase = "tracking"
  /\ trial = 2
  /\ reported = <<"trials", all_trial_errors>>
  /\ Len(all_trial_errors) = 1

\* ---------------------------------------------------------------- channel
StopPcs == {"stop_join", "in_gdx_stop", "in_gdx_close"}

StartPcs == {"start_init", "start_launch"}

\* C11: a stop() called while the channel is not started (never started, or
\* already stopped) returns at once as a no-op: it changes neither the started
\* flag, the queue, the fault, the thread, the stop event nor the device handle
\* and never enters the join or the device's stop/close.
C11_StopIdempotent ==
  [][(cpc = "idle" /\ ~started) =>
       /\ cpc' \notin StopPcs
       /\ (last' # last /\ last'.op = "stop" =>
             /\ last' = Ret("stop", "noop", <<>>)
             /\ cpc' = "idle"
             /\ beltVars' = beltVars
             /\ local' = local
             /\ histVars' = histVars)]_vars

\* C11 witness: a second stop() after a completed stop() of a channel that
\* still has a sample queued and a reader abandoned inside read()
C11_Witness ==
  /\ cpc = "idle"
  /\ last = Ret("stop", "noop", <<>>)
  /\ nstart >= 1
  /\ ~started
  /\ queue # <<>>
  /\ \E t \in Threads : tpc[t] = "read"

\* a reader thread that has left the while loop through the except clause
\* (a read without data or a raising read) or has returned
Leaving(t) == tpc[t] \in {"exc", "seterr", "done"}

\* C12 as stated: whenever a read yields no data, the handler goes on to
\* record the fault.
C12_NoDataAlwaysFault ==
  [][\A t \in Threads :
       (tpc[t] = "exc" /\ tpc'[t] # "exc") => tpc'[t] = "seterr"]_vars

\* C12 amended: a read that yields no data changes neither the queue nor the
\* fault by itself and takes the reader into the except clause; from there the
\* reader records the fault exactly when the stop event is not set at its
\* check (a stop() in progress suppresses the recording), it never returns to
\* the loop and so enqueues nothing more, and it ends by returning from
\* _reader_loop.
C12_NoDataFault ==
  [][\A t \in Threads :
       /\ (tpc[t] = "read" /\ tpc'[t] = "exc" =>
             queue' = queue /\ produced' = produced /\ error' = error)
       /\ (tpc[t] = "exc" /\ tpc'[t] # "exc" =>
             tpc'[t] = (IF stop_event THEN "done" ELSE "seterr"))
       /\ (tpc[t] = "seterr" /\ tpc'[t] # "seterr" =>
             tpc'[t] = "done" /\ error' # "None" /\ faultN' = Len(produced))
       /\ (tpc[t] = "done" => tpc'[t] = "done")
       /\ (Leaving(t) /\ tpc'[t] # tpc[t] =>
             queue' = queue /\ produced' = produced)]_vars

\* C12 witness: after one enqueued sample a read gave no data while the
\* channel was running: the fault is recorded, the reader has returned and
\* nothing was enqueued after the fault
C12_Witness ==
  /\ started
  /\ ~stop_event
  /\ thread # NoThread
  /\ tpc[thread] = "done"
  /\ error # "None"
  /\ produced = <<1>>
  /\ faultN = 1

\* start() has just raised because the device could not be opened
StartFailed ==
  cpc = "idle" /\ ~started /\ last = Ret("start", "raised", <<>>)

C14_DoubleStart ==
  [][(cpc = "idle" /\ started) =>
       /\ cpc' \notin StartPcs
       /\ (last' # last /\ last'.op = "start" =>
             /\ last' = Ret("start", "raised", <<>>)
             /\ cpc' = "idle"
             /\ beltVars' = beltVars
             /\ local' = local
             /\ histVars' = histVars)]_vars

\* C14 witness: a start() on a running channel has raised; the reader is
\* still in its loop and a sample is still queued
C14_Witness ==
  /\ cpc = "idle"
  /\ started
  /\ last = Ret("start", "raised", <<>>)
  /\ nstart = 1
  /\ InLoop(thread)
  /\ queue # <<>>

\* ---------------------------------------------------------------- connect
\* C15: when the first start() of an orchestration raises, a second attempt
\* is made with the alternate connection mode; when that raises too the
\* session is aborted; and the session (display setup in run_experiment, the
\* session part of the legacy script) is only ever entered with a started
\* channel.
C15_RetryOnce ==
  [][/\ (rpc \in {"connect1_wait", "s_connect1_wait"} /\ rpc' # rpc
           /\ last.out = "raised" => rpc' \in {"connect2", "s_connect2"})
     /\ (rpc \in {"connect2_wait", "s_connect2_wait"} /\ rpc' # rpc
           /\ last.out = "raised" => rpc' = "no_belt")
     /\ (rpc' \in {"setup", "s_session"} => started')]_vars

\* C16: the display subsystem is initialised (PsychoPy imported, window and
\* stimuli created) only after a start() of the channel has completed
\* successfully: at that step the channel is started, no start() is running
\* and the last belt call is the successful start().
C16_StartBeforeDisplay ==
  [][(\/ (rpc = "setup" /\ rpc' # rpc)
      \/ (rpc = "s_session" /\ rpc' # rpc)
      \/ (win = "None" /\ win' # "None"))
       => (started /\ cpc = "idle" /\ last = Ret("start", "ok", <<>>))]_vars

\* C17: with a condition list that holds two conditions of the same name and
\* different feedback_gain or segments, no session phase is ever entered and
\* no row is logged: the list is rejected before the session starts.
C17_DuplicateRejected ==
  duplicate_conflict(conditions) =>
    (phase = "idle" /\ entered = {} /\ rows = <<>>)

\* ---------------------------------------------------------------- get_latest
\* the number of samples dequeued so far
Dequeued == Len(produced) - Len(queue)

\* C18: samples are distinct and the queue is exactly the not yet dequeued
\* tail of the enqueue sequence, so a dequeued sample never comes back; a
\* get_latest() starts only without a recorded fault, holds nothing or the
\* sample it dequeued last, returns only when the queue is empty, and returns
\* None if it dequeued nothing and otherwise the most recently enqueued
\* sample; a get_all() holds exactly the samples it dequeued itself.
C18_LatestOnly ==
  [][/\ queue = SubSeq(produced, Dequeued + 1, Len(produced))
     /\ \A i, j \in 1..Len(produced) : i # j => produced[i] # produced[j]
     /\ (cpc = "idle" /\ cpc' = "gl_drain" => error = "None" /\ local' = <<>>)
     /\ (cpc = "gl_drain" =>
           \/ local = <<>>
           \/ Dequeued >= 1 /\ local = <<produced[Dequeued]>>)
     /\ (cpc = "gl_drain" /\ local = <<>> /\ local' # <<>> =>
           queue # <<>> /\ local' = <<Head(queue)>>)
     /\ (cpc = "gl_drain" /\ cpc' = "idle" =>
           /\ queue = <<>>
           /\ last' = Ret("get_latest", "ok", local)
           /\ (local # <<>> => local = <<produced[Len(produced)]>>))
     /\ (cpc = "ga_drain" =>
           /\ Len(local) <= Dequeued
           /\ local = SubSeq(produced, Dequeued - Len(local) + 1, Dequeued))
    ]_vars

\* C18 witness: two samples were enqueued, none was returned by get_all(),
\* and get_latest() has returned the second one with the queue drained
C18_Witness ==
  /\ cpc = "idle"
  /\ last = Ret("get_latest", "ok", <<2>>)
  /\ produced = <<1, 2>>
  /\ delivered = <<>>
  /\ queue = <<>>

\* ---------------------------------------------------------------- calibration
Min(S) == CHOOSE x \in S : \A y \in S : x <= y

Values(s) == {s[i] : i \in 1..Len(s)}

\* C19: for a non-empty sample sequence calibrate_from_baseline returns the
\* midpoint of the largest and the smallest sample as center and the larger of
\* half their distance and min_amplitude as amplitude; for the empty sequence
\* it returns center 5.0 N and amplitude 2.0 N (50 and 20 tenths).
C19_BaselineFormula ==
  result.fn = "calibrate_from_baseline" =>
    LET center == result.val[1]
        amplitude == result.val[2]
    IN  IF force_samples = <<>>
          THEN center = 50 /\ amplitude = 20
          ELSE LET hi == Max(Values(force_samples))
                   lo == Min(Values(force_samples))
               IN  /\ 2 * center = hi + lo
                   /\ 2 * amplitude >= hi - lo
                   /\ amplitude >= min_amplitude
                   /\ (2 * amplitude = hi - lo \/ amplitude = min_amplitude)

\* C19 witness: samples 1 N, 3 N, 2 N with the default min_amplitude give
\* center 2.0 N and amplitude 1.0 N
C19_Witness ==
  /\ result.fn = "calibrate_from_baseline"
  /\ force_samples = <<10, 30, 20>>
  /\ min_amplitude = 5
  /\ result.val = <<20, 10>>

\* C20: the amplitude returned by calibrate_from_baseline is at least the
\* min_amplitude argument, and the amplitude set by range calibration is at
\* least 0.5 N, for every sample sequence including the empty one.
C20_AmplitudeFloor ==
  /\ (result.fn = "calibrate_from_baseline" => result.val[2] >= min_amplitude)
  /\ (result.fn = "run_range_calibration" => result.val.global_amplitude >= 5)

\* ---------------------------------------------------------------- apply_gain
\* C21: apply_gain returns a list that is not the input object, has the
\* length of the buffer and holds center + gain * (buffer[i] - center) at
\* every index (the input values for gain 1.0, center for gain 0.0); the call
\* leaves the buffer as it was.
C21_ApplyGain ==
  [][result'.fn = "apply_gain" =>
       LET out == result'.val
       IN  /\ force_samples' = force_samples
           /\ out.obj # "buffer"
           /\ Len(out.items) = Len(force_samples)
           /\ \A i \in 1..Len(force_samples) :
                /\ 100 * out.items[i] =
                     100 * args.center + args.gain * (force_samples[i] - args.center)
                /\ (args.gain = 100 => out.items[i] = force_samples[i])
                /\ (args.gain = 0 => out.items[i] = args.center)]_vars

\* C21 witness: gain 0.5 around 1 N applied to 3 N, 1 N, -1 N
C21_Witness ==
  /\ result.fn = "apply_gain"
  /\ force_samples = <<30, 10, -10>>
  /\ args.gain = 50
  /\ args.center = 10
  /\ result.val.items = <<20, 10, 0>>

\* C22: for every sample scored in a tracking frame the logged
\* compensated_error is target - apply_gain([force], gain, center)[0] and the
\* logged error is target - force, the two being equal for gain 1.0; the
\* trace drawn in that frame shows the sample at target - compensated_error,
\* i.e. it is drawn with the same gain and center; the trial error appended is
\* the absolute compensated error.
C22_CompensatedError ==
  result.fn = "run_tracking" =>
    LET out == result.val
        n == Len(force_samples)
        k == Len(args.buffer)
    IN  /\ Len(out.rows) = n /\ Len(out.trial_errors) = n
        /\ Len(out.drawn) = k + n
        /\ \A i \in 1..n :
             LET row == out.rows[i]
                 shown == apply_gain(<<force_samples[i]>>, args.feedback_gain,
                                     args.range_center).items[1]
             IN  /\ row.error = args.target_force - force_samples[i]
                 /\ row.compensated_error = args.target_force - shown
                 /\ out.drawn[k + i] = args.target_force - row.compensated_error
                 /\ (args.feedback_gain = 100 => row.compensated_error = row.error)
                 /\ out.trial_errors[i] \in {row.compensated_error,
                                            -row.compensated_error}
                 /\ out.trial_errors[i] >= 0

\* C22 witness: gain 2.0 around 1 N, target 2 N, sample 0 N: error 2 N,
\* compensated error 3 N
C22_Witness ==
  /\ result.fn = "run_tracking"
  /\ force_samples = <<0>>
  /\ args.feedback_gain = 200
  /\ args.range_center = 10
  /\ args.target_force = 20
  /\ result.val.rows[1].error = 20
  /\ result.val.rows[1].compensated_error = 30

\* ---------------------------------------------------------------- get_target
\* the sum of the durations of the first k segments
RECURSIVE SpanStart(_, _)
SpanStart(segments, k) ==
  IF k = 0 THEN 0
  ELSE SpanStart(segments, k - 1) + segments[k].n_cycles * segments[k].period

C24_ProducerStamp ==
  result.fn = "run_baseline" =>
    \A i \in 1..Len(force_samples) :
      result.val.rows[i].timestamp = force_samples[i][1]

\* the percentile clipping has run on force_samples
Clipped == result.fn = "run_range_calibration" /\ args.fn = "run_range_calibration"

\* floor(n * p / 100) clamped into 0..n-1
FloorIndex(n, p) == max_of(0, min_of((n * p) \div 100, n - 1))

\* C25 as stated: both clipped bounds are the sorted sample at index
\* floor(n*p/100) of their percentile, clamped into 0..n-1
C25_SameIndexRule ==
  Clipped =>
    LET l == result.val.locals
    IN  /\ l.global_min = l.sorted_forces[FloorIndex(l.n, args.percentile_lo) + 1]
        /\ l.global_max = l.sorted_forces[FloorIndex(l.n, args.percentile_hi) + 1]

\* C25: range calibration clips with index arithmetic and no interpolation:
\* the low bound is the sorted sample at index floor(n*p_lo/100) clamped into
\* 0..n-1, the high bound is the sorted sample at index floor(n*p_hi/100) - 1
\* clamped into lo_idx..n-1, and both bounds are collected samples
C25_IndexArithmetic ==
  Clipped =>
    LET l == result.val.locals
        lo == FloorIndex(l.n, args.percentile_lo)
        hi == max_of(lo, min_of(((l.n * args.percentile_hi) \div 100) - 1, l.n - 1))
    IN  /\ l.n = Len(force_samples)
        /\ \A i \in 1..(l.n - 1) : l.sorted_forces[i] <= l.sorted_forces[i + 1]
        /\ \A v \in ClipValues :
             Cardinality({i \in 1..l.n : l.sorted_forces[i] = v})
               = Cardinality({i \in 1..l.n : force_samples[i] = v})
        /\ l.lo_idx = lo
        /\ l.hi_idx = hi
        /\ l.global_min = l.sorted_forces[lo + 1]
        /\ l.global_max = l.sorted_forces[hi + 1]

\* three distinct samples clipped at the 5th and 95th percentile: the high
\* bound is the sample at index 1, not the one at index floor(3*95/100) = 2
C25_Witness ==
  /\ Clipped
  /\ args.percentile_lo = PercentileLo
  /\ args.percentile_hi = PercentileHi
  /\ force_samples = <<10 * MaxForce, -10, 0>>
  /\ result.val.locals.global_min = -10
  /\ result.val.locals.global_max = 0

\* the samples of the rows written so far
RowSamples == [i \in 1..Len(rows) |-> rows[i].sample]

\* the result of a get_all() the frame loop has not processed yet
Undrained ==
  IF rpc = "ga" /\ cpc = "idle" /\ last.out = "ok" THEN last.res ELSE <<>>

TimedPhases == {"range_cal", "baseline", "countdown", "tracking"}

\* C26: the rows written are, sample by sample and in order, the samples the
\* get_all() calls of the timed phases returned (none skipped, none twice;
\* only an exception that ends the session inside a frame leaves that frame's
\* samples unwritten), and the rows a frame adds carry the phase, the
\* condition name and the trial number of the phase whose frame drained them
C26_OneRowPerSample ==
  /\ [](IsPrefix(RowSamples, delivered))
  /\ [](~error_occurred => RowSamples \o Undrained = delivered)
  /\ [][rows' # rows =>
          /\ phase \in TimedPhases
          /\ Len(rows') = Len(rows) + Len(last.res)
          /\ \A i \in 1..Len(rows') :
               IF i <= Len(rows)
                 THEN rows'[i] = rows[i]
                 ELSE /\ rows'[i].sample = last.res[i - Len(rows)]
                      /\ rows'[i].phase = phase
                      /\ rows'[i].trial_num =
                           (IF phase = "range_cal" THEN 0 ELSE trial)
                      /\ rows'[i].condition =
                           (IF phase = "range_cal" THEN ""
                            ELSE conditions[((trial - 1) % Len(conditions)) + 1].name)]_vars

\* a sample drained by the range calibration and one drained by the
\* countdown of trial 1 are both logged
C26_Witness ==
  /\ Len(rows) = 2
  /\ rows[1].phase = "range_cal"
  /\ rows[2].phase = "countdown"
  /\ rows[2].trial_num = 1
  /\ delivered = <<1, 2>>

\* C27: after a range calibration that collected data, the target's extremes
\* lie within the calibrated range: range_center - global_amplitude is at
\* least global_min and range_center + global_amplitude at most global_max
C27_TargetWithinRange ==
  Clipped =>
    LET st == result.val.state
        l == result.val.locals
    IN  /\ st.range_center - st.global_amplitude >= l.global_min
        /\ st.range_center + st.global_amplitude <= l.global_max

\* C28: for every sample count n >= 1 and every pair of percentiles in 0..100
\* the indices satisfy 0 <= lo_idx <= hi_idx <= n-1, the clipped minimum is at
\* most the clipped maximum, the raw amplitude and the padding are not
\* negative, and y_min <= y_max
C28_IndicesInRange ==
  Clipped =>
    LET st == result.val.state
        l == result.val.locals
    IN  /\ l.n = Len(force_samples)
        /\ l.n >= 1
        /\ 0 <= l.lo_idx
        /\ l.lo_idx <= l.hi_idx
        /\ l.hi_idx <= l.n - 1
        /\ l.global_min <= l.global_max
        /\ l.raw_amplitude >= 0
        /\ l.padding >= 0
        /\ st.y_min <= st.y_max

\* the low percentile is above the high one and both raw indices fall
\* outside 0..n-1
C28_Witness ==
  /\ Clipped
  /\ args.percentile_lo = 100
  /\ args.percentile_hi = 0
  /\ Len(force_samples) = MaxLen
  /\ result.val.locals.lo_idx = MaxLen - 1
  /\ result.val.locals.hi_idx = MaxLen - 1

\* C29: the calibration state an accepted range calibration leaves is the
\* one computed from the final attempt's samples alone: it equals what that
\* attempt gives on a session that never ran a rejected attempt
C29_FinalAttemptOnly ==
  (AtLoopPc("done") /\ result.val.returned = "True") =>
    result.val.state =
      range_calibration_result(ExperimentState, RangeCalConfig, force_samples)

\* C30: every sample in the input of a calibration (range_cal_forces,
\* baseline_forces) was produced after the clock of the collecting phase was
\* reset
C30_TimedWindowOnly ==
  phase \in {"range_cal", "baseline"} =>
    \A i \in 1..Len(forces) :
      \E k \in (resetN + 1)..Len(produced) : produced[k] = forces[i]

====
